---- MODULE Spec2Model ----
(***************************************************************************)
(* A model of the reactive atom store of lib/jotai/store.ts (buildStore).  *)
(*                                                                         *)
(* The store's state is the five collections buildStore closes over        *)
(* (atomStateMap, mountedMap, invalidatedAtoms, changedAtoms and the two   *)
(* callback queues).  Every public operation (store.get, store.set,        *)
(* store.sub and the unsubscribe closure sub returns) is one action that   *)
(* runs the whole call, its recompute pass and callback flush included.    *)
(* The internal functions are operators over a "working store" record W    *)
(* that is threaded through the call exactly as the code mutates its maps. *)
(*                                                                         *)
(* JavaScript Map and Set iterate in insertion order, so every collection  *)
(* the code iterates is a sequence without duplicates here.                *)
(***************************************************************************)
EXTENDS Integers, Sequences, FiniteSets, TLC

\* ------------------------------------------------------------------ bounds
\* Primitive atoms are written with the values 0..MaxVal.
MaxVal == 1
\* A behaviour is a sequence of at most MaxOps store operations.
MaxOps == 4

Values == 0..MaxVal

\* ------------------------------------------------------- atom descriptors
\* The atom graph the store is exercised with (descriptors are built by
\* atom(), atom.ts:86-107):
\*   a  = atom(0)                                   primitive
\*   b1 = atom(get => get(a) * 2)                   the "double" atom
\*   b2 = atom(get => get(a) + 1)
\*   c  = atom(get => get(b1) + get(b2))            diamond over a
\*   e  = atom(get => { const v = get(a); if (v >= 1) throw ...; return v + 10 })
\*   f  = atom(get => get(e) + 1)                   reads e without catching
\*   flag = atom(1)                                 primitive
\*   d  = atom(get => get(flag) ? get(b1) : 0)      reads b1 on one branch
\*   h  = atom(0), h.onMount = () => { throw ... }  primitive, hook throws
\*   s  = atom(get => get(h) + get(a))              reads two primitives
\*   g  = atom(get => get(flag) * get(a))           0 whenever flag is 0
\*   top = atom(get => get(g) + 1)                  reads g only
\*   wc = atom(get => get(c),
\*             (get, set, v) => { set(a, v); return get(c) })
\*   wb = atom(get => get(b1),
\*             (get, set, v) => { set(a, v); return get(b1) })
\*   wt = atom(get => get(a),
\*             (get, set, v) => { set(a, v); throw ... })
\*   sum = atom(get => get(a) + get(flag))
\*   wf = atom(get => get(sum),
\*             (get, set, v) => { set(a, v); set(flag, v) })
\*   z  = atom(get => get(z) + 1)                   reads itself, no init
\*   m  = atom(0), m.onMount = set => { set(1); return () => {} }
\*   dm = atom(get => get(m) * 2)                   reads m
\*   w  = atom(get => get(a),                       writable derived atom
\*             (get, set, v) => { set(a, v); return v + 100 })
Atoms ==
  {"a", "b1", "b2", "c", "e", "f", "flag", "d", "h", "s", "w", "m", "dm",
   "g", "top", "wc", "sum", "wf", "z", "wb",
   "wt"}

\* The store is exercised with one of three groups of these atoms: the
\* counter and its double, the diamond, and the failing atom with its reader.
Worlds == {"double", "diamond", "error"}

WorldAtoms(w) ==
  CASE w = "double" -> {"a", "b1"}
    [] w = "diamond" -> {"a", "b1", "b2", "c"}
    [] w = "cond" -> {"a", "flag", "b1", "d"}
    [] w = "two" -> {"a", "b1"}
    [] w = "faulty" -> {"a", "h", "s"}
    [] w = "reentrant" -> {"a", "b1"}
    [] w = "writer" -> {"a", "b1", "w"}
    [] w = "hook" -> {"m", "dm"}
    [] w = "late" -> {"m", "dm"}
    [] w = "self" -> {"a", "flag", "z"}
    [] w = "pair" -> {"a", "b1"}
    [] w = "wget" -> {"a", "b1", "wb"}
    [] w = "wthrow" -> {"a", "b1", "wt"}
    [] w = "gate" -> {"a", "flag", "g", "top"}
    [] w = "chain" -> {"a", "b1", "b2", "c", "wc"}
    [] w = "fan" -> {"a", "flag", "sum", "wf"}
    [] OTHER -> {"a", "e", "f"}

\* Listener functions handed to store.sub.
Listeners == {"l1", "l2"}

\* 'init' in atom (hasInitialValue): atom(init) sets config.init.
hasInitialValue(atom) == atom \in {"a", "flag", "h", "m"}

\* The init property of a primitive atom.
InitOf(atom) == IF atom = "flag" THEN 1 ELSE 0

\* !!atom.write: atom(init) installs defaultWrite, atom(read) installs
\* none, atom(read, write) installs write.
isActuallyWritableAtom(atom) ==
  atom \in {"a", "flag", "h", "w", "m", "wc", "wf", "wb", "wt"}

\* isSelfAtom(atom, a): reference equality of descriptors.
isSelfAtom(atom, a) == atom = a

\* -------------------------------------------------------- values, errors
\* An error object.  kind names what was thrown, src the atom whose
\* evaluation created it and n that atom's version right after the throw
\* (the catch block increments the version on every throw, so (src, n)
\* identifies one thrown Error object).
NoError == [kind |-> "none", src |-> "none", n |-> 0]

MkError(kind, src, n) == [kind |-> kind, src |-> src, n |-> n]

\* The outcome of evaluating an expression: a value or a thrown error.
Val(v) == [t |-> "val", v |-> v, e |-> NoError]

Throw(e) == [t |-> "err", v |-> 0, e |-> e]

\* What a read function does next, given the values its get calls returned
\* so far: call get(a), return a value, or throw.
DoGet(a) == [op |-> "get", a |-> a, v |-> 0]

DoRet(v) == [op |-> "ret", a |-> "none", v |-> v]

DoThrow == [op |-> "throw", a |-> "none", v |-> 0]

\* The read functions of the atoms above; defaultRead (atom.ts:109-111) is
\* get(this).
ReadStep(atom, vs) ==
  CASE atom \in {"a", "flag", "h", "m"} ->
         IF Len(vs) = 0 THEN DoGet(atom) ELSE DoRet(vs[1])
    [] atom = "g" ->
         IF Len(vs) = 0 THEN DoGet("flag")
         ELSE IF Len(vs) = 1 THEN DoGet("a")
         ELSE DoRet(vs[1] * vs[2])
    [] atom = "top" ->
         IF Len(vs) = 0 THEN DoGet("g") ELSE DoRet(vs[1] + 1)
    [] atom = "dm" ->
         IF Len(vs) = 0 THEN DoGet("m") ELSE DoRet(vs[1] * 2)
    [] atom = "s" ->
         IF Len(vs) = 0 THEN DoGet("h")
         ELSE IF Len(vs) = 1 THEN DoGet("a")
         ELSE DoRet(vs[1] + vs[2])
    [] atom = "d" ->
         IF Len(vs) = 0 THEN DoGet("flag")
         ELSE IF vs[1] = 0 THEN DoRet(0)
         ELSE IF Len(vs) = 1 THEN DoGet("b1")
         ELSE DoRet(vs[2])
    [] atom = "b1" ->
         IF Len(vs) = 0 THEN DoGet("a") ELSE DoRet(vs[1] * 2)
    [] atom = "w" ->
         IF Len(vs) = 0 THEN DoGet("a") ELSE DoRet(vs[1])
    [] atom = "wc" ->
         IF Len(vs) = 0 THEN DoGet("c") ELSE DoRet(vs[1])
    [] atom = "sum" ->
         IF Len(vs) = 0 THEN DoGet("a")
         ELSE IF Len(vs) = 1 THEN DoGet("flag")
         ELSE DoRet(vs[1] + vs[2])
    [] atom = "wf" ->
         IF Len(vs) = 0 THEN DoGet("sum") ELSE DoRet(vs[1])
    [] atom = "wb" ->
         IF Len(vs) = 0 THEN DoGet("b1") ELSE DoRet(vs[1])
    [] atom = "wt" ->
         IF Len(vs) = 0 THEN DoGet("a") ELSE DoRet(vs[1])
    [] atom = "z" ->
         IF Len(vs) = 0 THEN DoGet("z") ELSE DoRet(vs[1] + 1)
    [] atom = "b2" ->
         IF Len(vs) = 0 THEN DoGet("a") ELSE DoRet(vs[1] + 1)
    [] atom = "c" ->
         IF Len(vs) = 0 THEN DoGet("b1")
         ELSE IF Len(vs) = 1 THEN DoGet("b2")
         ELSE DoRet(vs[1] + vs[2])
    [] atom = "e" ->
         IF Len(vs) = 0 THEN DoGet("a")
         ELSE IF vs[1] >= 1 THEN DoThrow
         ELSE DoRet(vs[1] + 10)
    [] OTHER ->
         IF Len(vs) = 0 THEN DoGet("e") ELSE DoRet(vs[1] + 1)

\* ------------------------------------------------------------ collections
\* Set.prototype.add on an insertion-ordered set.
SeqAdd(s, x) == IF \E i \in 1..Len(s) : s[i] = x THEN s ELSE Append(s, x)

\* Set.prototype.delete.
SeqDel(s, x) == SelectSeq(s, LAMBDA y : y # x)

SeqHas(s, x) == \E i \in 1..Len(s) : s[i] = x

\* Map.prototype.set on the dependencies map (a sequence of [a, n] entries):
\* an existing key keeps its place.
MapSet(m, a, n) ==
  IF \E i \in 1..Len(m) : m[i].a = a
  THEN [i \in 1..Len(m) |-> IF m[i].a = a THEN [a |-> a, n |-> n] ELSE m[i]]
  ELSE Append(m, [a |-> a, n |-> n])

\* Map.prototype.keys as a set.
MapKeys(m) == {m[i].a : i \in 1..Len(m)}

\* ------------------------------------------------------------------ state
\* ensureAtomState: the state an atom gets on first access.
FreshAtomState ==
  [hasValue |-> FALSE, value |-> 0, hasError |-> FALSE, error |-> NoError,
   dependencies |-> <<>>, n |-> 0]

\* The entry of an atom that has no mounted record.
NotMounted ==
  [m |-> FALSE, listeners |-> <<>>, dependencies |-> {}, dependents |-> <<>>,
   onUnmount |-> FALSE]

\* invalidatedAtoms.get(atom) === undefined.
NoEntry == -1

VARIABLES
  world,             \* the group of atoms this store is used with
  atomStateMap,      \* atom -> AtomState
  mountedMap,        \* atom -> Mounted record, or NotMounted
  invalidatedAtoms,  \* atom -> version it was invalidated at, or NoEntry
  changedAtoms,      \* the pending-change set, in insertion order
  mountCallbacks,    \* queued processOnMount closures (their atoms)
  unmountCallbacks,  \* queued unmount callbacks
  subs,              \* the unsubscribe closures store.sub has returned
  other,             \* the collections and closures of a second store
  last               \* what the last store operation did and returned

vars ==
  <<world, atomStateMap, mountedMap, invalidatedAtoms, changedAtoms, mountCallbacks,
    unmountCallbacks, subs, other, last>>

\* ----------------------------------------------------------- working store
\* The store while one operation runs: the six collections of buildStore
\* plus what the operation is observed to do (reads: the atoms whose read
\* function ran, in order; calls: the listeners invoked, in order; pend: the
\* atoms added to changedAtoms; invd: the atoms given an invalidation entry
\* by invalidateDependents; dropped: the atoms whose mounted record was
\* deleted; thrown: an error raised by the store's own code that is
\* propagating to the caller; errors: the length of the errors array of the
\* flushCallbacks call that is running; depth: the number of flushCallbacks
\* calls on the stack, nest: the largest depth reached; hooks: the atoms
\* whose processOnMount ran, in order; log: for every run of a read
\* function a "start" entry, then one entry per get(a) on another atom with
\* the version a had when it was read; cleanups: the atoms whose stored
\* unmount hook ran, in order; pass: the atoms the second loop of
\* recomputeInvalidatedAtoms processed, in order).
Work ==
  [as |-> atomStateMap, mm |-> mountedMap, inv |-> invalidatedAtoms,
   ch |-> changedAtoms, mcb |-> mountCallbacks, ucb |-> unmountCallbacks,
   reads |-> <<>>, calls |-> <<>>, pend |-> {}, invd |-> {}, dropped |-> {},
   thrown |-> "none", errors |-> 0, depth |-> 0, nest |-> 0, hooks |-> <<>>,
   log |-> <<>>, cleanups |-> <<>>, pass |-> <<>>]

\* isAtomStateInitialized: 'value' in atomState || 'error' in atomState.
isAtomStateInitialized(st) == st.hasValue \/ st.hasError

\* returnAtomValue: throw the stored error, or the Error it creates when the
\* state holds no value either (fresh is that new Error), or return the value.
returnAtomValue(st, fresh) ==
  IF st.hasError THEN Throw(st.error)
  ELSE IF ~st.hasValue THEN Throw(fresh)
  ELSE Val(st.value)

\* setAtomStateValue without the Object.is comparison: the version is
\* incremented on every call.
setAtomStateValue_AlwaysBump(W, atom, value) ==
  [W EXCEPT !.as[atom] =
     [@ EXCEPT !.hasValue = TRUE, !.value = value,
               !.hasError = FALSE, !.error = NoError, !.n = @ + 1]]

\* setAtomStateValue: store the value, delete the error, and increment the
\* version when there was no value before or the value differs (Object.is).
setAtomStateValue(W, atom, value) ==
  LET st == W.as[atom]
      bump == ~st.hasValue \/ st.value # value
  IN [W EXCEPT !.as[atom] =
        [st EXCEPT !.hasValue = TRUE, !.value = value,
                   !.hasError = FALSE, !.error = NoError,
                   !.n = IF bump THEN @ + 1 ELSE @]]

\* getMountedDependents: the dependents of atom's mounted record that are
\* themselves mounted, in insertion order.
getMountedDependents(W, atom) ==
  SelectSeq(W.mm[atom].dependents, LAMBDA d : W.mm[d].m)

\* A getter that initialises the atom that reads itself whether or not the
\* descriptor has an init property.
ReadGetter_AssumeInit(W, atom, a) ==
  IF isSelfAtom(atom, a)
  THEN IF ~isAtomStateInitialized(W.as[a])
       THEN [W |-> setAtomStateValue(W, a, InitOf(a)),
             out |-> Val(InitOf(a))]
       ELSE [W |-> W, out |-> returnAtomValue(W.as[a], NoError)]
  ELSE [W |-> [W EXCEPT
                 !.log = Append(@, [atom |-> atom, a |-> a, n |-> W.as[a].n]),
                 !.as[atom].dependencies = MapSet(@, a, W.as[a].n),
                 !.mm[a].dependents = IF W.mm[a].m THEN SeqAdd(@, atom) ELSE @],
        out |-> returnAtomValue(W.as[a],
                                MkError("atom state is not initialized",
                                        atom, W.as[atom].n + 1))]

\* The getter readAtomState hands to atom's read function, called on a.
\* It returns the working store and what get(a) evaluates to.
\* For a # atom the state of a is taken as it is (ensureAtomState), without
\* evaluating a; the dependency is recorded in the finally block, whether
\* or not returnAtomValue throws.
ReadGetter(W, atom, a) ==
  IF isSelfAtom(atom, a)
  THEN IF ~isAtomStateInitialized(W.as[a])
       THEN IF hasInitialValue(a)
            THEN [W |-> setAtomStateValue(W, a, InitOf(a)),
                  out |-> Val(InitOf(a))]
            ELSE [W |-> W,
                  out |-> Throw(MkError("no atom init", atom, W.as[atom].n + 1))]
       ELSE [W |-> W, out |-> returnAtomValue(W.as[a], NoError)]
  ELSE [W |-> [W EXCEPT
                 !.log = Append(@, [atom |-> atom, a |-> a, n |-> W.as[a].n]),
                 !.as[atom].dependencies = MapSet(@, a, W.as[a].n),
                 !.mm[a].dependents = IF W.mm[a].m THEN SeqAdd(@, atom) ELSE @],
        out |-> returnAtomValue(W.as[a],
                                MkError("atom state is not initialized",
                                        atom, W.as[atom].n + 1))]

\* atomRead(atom, getter): run atom's read function; vs are the values its
\* get calls have returned so far.  An error thrown by get is not caught by
\* any of the read functions, so it leaves the read function.
RECURSIVE atomRead(_, _, _)
\* The read function after a get call that evaluated to g.
AfterGet(g, atom, vs) ==
  IF g.out.t = "err" THEN g
  ELSE atomRead(g.W, atom, Append(vs, g.out.v))

atomRead(W, atom, vs) ==
  CASE ReadStep(atom, vs).op = "ret" ->
         [W |-> W, out |-> Val(ReadStep(atom, vs).v)]
    [] ReadStep(atom, vs).op = "throw" ->
         [W |-> W, out |-> Throw(MkError("read threw", atom, W.as[atom].n + 1))]
    [] OTHER ->
         AfterGet(ReadGetter(W, atom, ReadStep(atom, vs).a), atom, vs)

\* The finally block of readAtomState without the comparison of the
\* versions.
MarkChanged_IgnoreVersion(W, atom, prevEpochNumber) ==
  IF W.inv[atom] = prevEpochNumber
  THEN [W EXCEPT !.inv[atom] = W.as[atom].n, !.ch = SeqAdd(@, atom),
                 !.pend = @ \cup {atom}]
  ELSE W

\* The finally block of readAtomState without invalidatedAtoms.set: the
\* entry keeps the version the atom had before.
MarkChanged_KeepEntry(W, atom, prevEpochNumber) ==
  IF prevEpochNumber # W.as[atom].n /\ W.inv[atom] = prevEpochNumber
  THEN [W EXCEPT !.ch = SeqAdd(@, atom), !.pend = @ \cup {atom}]
  ELSE W

\* The finally block of readAtomState (store.ts:301-309): the atom is marked
\* changed when its version changed and it was invalidated at the version
\* it had before.
MarkChanged(W, atom, prevEpochNumber) ==
  IF prevEpochNumber # W.as[atom].n /\ W.inv[atom] = prevEpochNumber
  THEN [W EXCEPT !.inv[atom] = W.as[atom].n, !.ch = SeqAdd(@, atom),
                 !.pend = @ \cup {atom}]
  ELSE W

\* The try and catch blocks of readAtomState without the version increment
\* of the catch block.
StoreOutcome_NoBumpOnError(r, atom) ==
  IF r.out.t = "val"
  THEN setAtomStateValue(r.W, atom, r.out.v)
  ELSE [r.W EXCEPT !.as[atom] =
          [@ EXCEPT !.hasValue = FALSE, !.value = 0,
                    !.hasError = TRUE, !.error = r.out.e]]

\* The try and catch blocks of readAtomState without the delete of the
\* value in the catch block.
StoreOutcome_KeepValue(r, atom) ==
  IF r.out.t = "val"
  THEN setAtomStateValue(r.W, atom, r.out.v)
  ELSE [r.W EXCEPT !.as[atom] =
          [@ EXCEPT !.hasError = TRUE, !.error = r.out.e, !.n = @ + 1]]

\* The try and catch blocks of readAtomState (store.ts:290-300), r being
\* what the read function did: store the value, or delete the value, store
\* the error and increment the version.
StoreOutcome(r, atom) ==
  IF r.out.t = "val"
  THEN setAtomStateValue(r.W, atom, r.out.v)
  ELSE [r.W EXCEPT !.as[atom] =
          [@ EXCEPT !.hasValue = FALSE, !.value = 0,
                    !.hasError = TRUE, !.error = r.out.e,
                    !.n = @ + 1]]

\* readAtomState that keeps the dependencies of the earlier evaluation.
Recompute_NoClear(W, atom) ==
  MarkChanged(
    StoreOutcome(
      atomRead([W EXCEPT !.reads = Append(@, atom),
                         !.log = Append(@, [atom |-> atom, a |-> "start",
                                            n |-> 0])],
               atom, <<>>),
      atom),
    atom, W.as[atom].n)

\* The part of readAtomState after the cache checks (store.ts:263-309):
\* clear the dependencies, run the read function, store the value or the
\* error, and mark the atom changed.
Recompute(W, atom) ==
  MarkChanged(
    StoreOutcome(
      atomRead([W EXCEPT !.as[atom].dependencies = <<>>,
                         !.reads = Append(@, atom),
                         !.log = Append(@, [atom |-> atom, a |-> "start",
                                            n |-> 0])],
               atom, <<>>),
      atom),
    atom, W.as[atom].n)

RECURSIVE readAtomState(_, _)
RECURSIVE DepsUnchanged(_, _, _)
\* The callback of every for entry i, W being the store after
\* readAtomState on the entry's atom.
DepUnchanged(W, ds, i) ==
  IF W.as[ds[i].a].n = ds[i].n
  THEN DepsUnchanged(W, ds, i + 1)
  ELSE [W |-> W, ok |-> FALSE]

\* Array.from(atomState.dependencies).every(([a, n]) => readAtomState(a).n
\* === n), from entry i of the array on: every stops at the first entry
\* whose version differs.
DepsUnchanged(W, ds, i) ==
  IF i > Len(ds) THEN [W |-> W, ok |-> TRUE]
  ELSE DepUnchanged(readAtomState(W, ds[i].a), ds, i)

\* The cache checks of readAtomState (store.ts:244-262): ok tells whether
\* the cached state is returned.
CacheValid(W, atom) ==
  IF ~isAtomStateInitialized(W.as[atom]) THEN [W |-> W, ok |-> FALSE]
  ELSE IF W.mm[atom].m /\ W.inv[atom] # W.as[atom].n THEN [W |-> W, ok |-> TRUE]
  ELSE DepsUnchanged(W, W.as[atom].dependencies, 1)

\* readAtomState after its cache checks came out as d.
UseCacheOrRecompute(d, atom) ==
  IF d.ok THEN d.W ELSE Recompute(d.W, atom)

\* readAtomState (store.ts:241-310); the atom state it returns is
\* W.as[atom] of the result.
readAtomState(W, atom) == UseCacheOrRecompute(CacheValid(W, atom), atom)

\* invalidateDependents (store.ts:312-322): flag every mounted dependent,
\* transitively, as invalidated at its current version.  stack is the
\* explicit stack of the code; pop takes its last element.
RECURSIVE InvalidateFrom(_, _)
InvalidateFrom(W, stack) ==
  IF Len(stack) = 0 THEN W
  ELSE LET a == stack[Len(stack)]
           ds == getMountedDependents(W, a)
           W1 == [W EXCEPT
                    !.inv = [x \in Atoms |->
                               IF SeqHas(ds, x) THEN W.as[x].n ELSE @[x]],
                    !.invd = @ \cup {x \in Atoms : SeqHas(ds, x)}]
       IN InvalidateFrom(W1, SubSeq(stack, 1, Len(stack) - 1) \o ds)

invalidateDependents(W, atom) == InvalidateFrom(W, <<atom>>)

\* mountAtom (store.ts:358-395).  An unmounted atom is evaluated, its
\* dependencies are mounted first, then its record is created.  A writable
\* atom gets a processOnMount closure queued on every call.
RECURSIVE mountAtom(_, _)
RECURSIVE MountEach(_, _, _, _)
\* aMounted.dependents.add(atom), W being the store after mountAtom(a).
AddDependent(W, a, atom) ==
  [W EXCEPT !.mm[a].dependents = SeqAdd(@, atom)]

\* The loop over atomState.dependencies.keys() (store.ts:365-368).
MountEach(W, atom, ds, i) ==
  IF i > Len(ds) THEN W
  ELSE MountEach(AddDependent(mountAtom(W, ds[i].a), ds[i].a, atom),
                 atom, ds, i + 1)

\* mountedMap.set(atom, mounted) (store.ts:370-375).
MountSelf(W, atom) ==
  [W EXCEPT !.mm[atom] =
     [m |-> TRUE, listeners |-> <<>>,
      dependencies |-> MapKeys(W.as[atom].dependencies),
      dependents |-> <<>>, onUnmount |-> FALSE]]

\* The dependencies of atom as recorded by the readAtomState that left W.
MountDependenciesOf(W, atom) ==
  MountEach(W, atom, W.as[atom].dependencies, 1)

\* mountCallbacks.add(processOnMount) (store.ts:378-392).
QueueOnMount(W, atom) ==
  IF isActuallyWritableAtom(atom)
  THEN [W EXCEPT !.mcb = Append(@, atom)]
  ELSE W

mountAtom(W, atom) ==
  QueueOnMount(
    IF W.mm[atom].m THEN W
    ELSE MountSelf(MountDependenciesOf(readAtomState(W, atom), atom), atom),
    atom)

\* The body of the if in mountDependencies after mountAtom(a) left W
\* (store.ts:175-179); n is the version recorded for a.
LinkDependency(W, atom, a, n) ==
  [W EXCEPT !.mm[a].dependents = SeqAdd(@, atom),
            !.mm[atom].dependencies = @ \cup {a},
            !.ch = IF n # W.as[a].n THEN SeqAdd(@, a) ELSE @,
            !.pend = IF n # W.as[a].n THEN @ \cup {a} ELSE @]

\* mountDependencies (store.ts:167-183): for a mounted atom, mount every
\* recorded dependency its mounted record does not list yet, and mark the
\* dependency changed when its version differs from the recorded one.
RECURSIVE MountDepsFrom(_, _, _, _)
MountDepsFrom(W, atom, ds, i) ==
  IF i > Len(ds) THEN W
  ELSE MountDepsFrom(
         IF ds[i].a \in W.mm[atom].dependencies THEN W
         ELSE LinkDependency(mountAtom(W, ds[i].a), atom, ds[i].a, ds[i].n),
         atom, ds, i + 1)

mountDependencies(W, atom) ==
  IF W.mm[atom].m
  THEN MountDepsFrom(W, atom, W.as[atom].dependencies, 1)
  ELSE W

\* unmountAtom (store.ts:397-418): delete the record of an atom that has no
\* listener and no mounted dependent listing it as a dependency, then try
\* the same on each recorded dependency; a dependency that stays mounted
\* loses the atom from its dependents.
RECURSIVE unmountAtom(_, _)
RECURSIVE UnmountEach(_, _, _, _)
\* unmountAtom that deletes the atom's record and leaves its dependencies
\* alone.
unmountAtom_NoCascade(W, atom) ==
  IF /\ W.mm[atom].m
     /\ Len(W.mm[atom].listeners) = 0
     /\ ~\E i \in 1..Len(W.mm[atom].dependents) :
           /\ W.mm[W.mm[atom].dependents[i]].m
           /\ atom \in W.mm[W.mm[atom].dependents[i]].dependencies
  THEN [W EXCEPT !.mm[atom] = NotMounted, !.dropped = @ \cup {atom}]
  ELSE W

\* aMounted?.dependents.delete(atom), W being the store after
\* unmountAtom(a).
DeleteDependent(W, a, atom) ==
  IF W.mm[a].m
  THEN [W EXCEPT !.mm[a].dependents = SeqDel(@, atom)]
  ELSE W

\* The loop over atomState.dependencies.keys() (store.ts:411-414).
UnmountEach(W, atom, ds, i) ==
  IF i > Len(ds) THEN W
  ELSE UnmountEach(DeleteDependent(unmountAtom(W, ds[i].a), ds[i].a, atom),
                   atom, ds, i + 1)

unmountAtom(W, atom) ==
  IF /\ W.mm[atom].m
     /\ Len(W.mm[atom].listeners) = 0
     /\ ~\E i \in 1..Len(W.mm[atom].dependents) :
           /\ W.mm[W.mm[atom].dependents[i]].m
           /\ atom \in W.mm[W.mm[atom].dependents[i]].dependencies
  THEN UnmountEach([W EXCEPT !.mm[atom] = NotMounted,
                             !.dropped = @ \cup {atom}],
                   atom, W.as[atom].dependencies, 1)
  ELSE W

\* The first loop of recomputeInvalidatedAtoms (store.ts:192-220): a
\* depth-first walk over the mounted dependents of the changed atoms that
\* lists the invalidated ones, dependents before the atoms they read.
\* It throws when it meets an invalidation entry of another version.
RECURSIVE TopSort(_, _, _, _, _)
TopSort(W, stack, visiting, visited, sorted) ==
  IF Len(stack) = 0 THEN [sorted |-> sorted, thrown |-> "none"]
  ELSE LET a == stack[Len(stack)]
           rest == SubSeq(stack, 1, Len(stack) - 1)
       IN IF a \in visited
          THEN TopSort(W, rest, visiting, visited, sorted)
          ELSE IF a \in visiting
          THEN IF W.inv[a] = W.as[a].n
               THEN TopSort(W, rest, visiting, visited \cup {a},
                            Append(sorted, a))
               ELSE IF W.inv[a] # NoEntry
               THEN [sorted |-> sorted, thrown |-> "invalidated atom exists"]
               ELSE TopSort(W, rest, visiting, visited \cup {a}, sorted)
          ELSE TopSort(W,
                       stack \o SelectSeq(getMountedDependents(W, a),
                                          LAMBDA d : d \notin visiting \cup {a}),
                       visiting \cup {a}, visited, sorted)

\* The second loop (store.ts:224-238): walk the list backwards; an atom
\* with a recorded dependency in the pending-change set is read again and
\* its dependencies mounted; its invalidation entry is deleted either way.
RECURSIVE RecomputeFrom(_, _, _)
\* invalidatedAtoms.delete(a)
DeleteInvalidated(W, a) ==
  [W EXCEPT !.inv[a] = NoEntry, !.pass = Append(@, a)]

RecomputeFrom(W, sorted, i) ==
  IF i < 1 THEN W
  ELSE RecomputeFrom(
         DeleteInvalidated(
           IF \E dep \in MapKeys(W.as[sorted[i]].dependencies) :
                dep # sorted[i] /\ SeqHas(W.ch, dep)
           THEN mountDependencies(readAtomState(W, sorted[i]), sorted[i])
           ELSE W,
           sorted[i]),
         sorted, i - 1)

\* recomputeInvalidatedAtoms whose second loop walks the list forwards.
RecomputeSorted_Forwards(W, t) ==
  IF t.thrown # "none"
  THEN [W EXCEPT !.thrown = t.thrown]
  ELSE RecomputeFrom(W,
                     [i \in 1..Len(t.sorted) |->
                        t.sorted[Len(t.sorted) + 1 - i]],
                     Len(t.sorted))

\* recomputeInvalidatedAtoms after its first loop came out as t.
RecomputeSorted(W, t) ==
  IF t.thrown # "none"
  THEN [W EXCEPT !.thrown = t.thrown]
  ELSE RecomputeFrom(W, t.sorted, Len(t.sorted))

\* recomputeInvalidatedAtoms (store.ts:185-239).
recomputeInvalidatedAtoms(W) ==
  RecomputeSorted(W, TopSort(W, W.ch, {}, {}, <<>>))

\* The setter after setAtomStateValue and mountDependencies left W
\* (store.ts:342-345).
InvalidateIfChanged(W, a, prevEpochNumber) ==
  IF prevEpochNumber # W.as[a].n
  THEN invalidateDependents(
         [W EXCEPT !.ch = SeqAdd(@, a), !.pend = @ \cup {a}], a)
  ELSE W

RECURSIVE flushCallbacks(_)

\* A setter that recomputes and notifies at once instead of leaving both to
\* the end of store.set.
SetSelf_Eager(W, a, v) ==
  flushCallbacks(recomputeInvalidatedAtoms(
    InvalidateIfChanged(mountDependencies(setAtomStateValue(W, a, v), a),
                        a, W.as[a].n)))

\* The setter of writeAtomState applied to the atom being written
\* (store.ts:334-346).
SetSelf(W, a, v) ==
  InvalidateIfChanged(mountDependencies(setAtomStateValue(W, a, v), a),
                      a, W.as[a].n)

\* The value of an expression that evaluates to undefined.
Undefined == [t |-> "undef", v |-> 0, e |-> NoError]

\* writeAtomState that does not call atom.write and sets the atom itself.
writeAtomState_NoWrite(W, atom, v) ==
  [W |-> SetSelf(W, atom, v), out |-> Undefined]

\* What a write function does next, given what its set and get calls
\* returned so far: call set(a, v), call get(a), or return r.
DoSet(a, v) == [op |-> "set", a |-> a, v |-> v, r |-> Undefined]

DoRead(a) == [op |-> "get", a |-> a, v |-> 0, r |-> Undefined]

DoReturn(r) == [op |-> "ret", a |-> "none", v |-> 0, r |-> r]

DoFail == [op |-> "throw", a |-> "none", v |-> 0, r |-> Undefined]

\* The write functions: w's sets a and returns v + 100; wc's sets a and
\* returns get(c); wb's sets a and returns get(b1); wf's sets a, then flag,
\* and returns nothing; wt's sets a and throws; defaultWrite (atom.ts:113-123) returns what
\* set(this, arg) returned.
WriteStep(atom, v, rs) ==
  CASE atom = "w" ->
         IF Len(rs) = 0 THEN DoSet("a", v) ELSE DoReturn(Val(v + 100))
    [] atom = "wc" ->
         IF Len(rs) = 0 THEN DoSet("a", v)
         ELSE IF Len(rs) = 1 THEN DoRead("c")
         ELSE DoReturn(rs[2])
    [] atom = "wb" ->
         IF Len(rs) = 0 THEN DoSet("a", v)
         ELSE IF Len(rs) = 1 THEN DoRead("b1")
         ELSE DoReturn(rs[2])
    [] atom = "wt" ->
         IF Len(rs) = 0 THEN DoSet("a", v) ELSE DoFail
    [] atom = "wf" ->
         IF Len(rs) = 0 THEN DoSet("a", v)
         ELSE IF Len(rs) = 1 THEN DoSet("flag", v)
         ELSE DoReturn(Undefined)
    [] OTHER ->
         IF Len(rs) = 0 THEN DoSet(atom, v) ELSE DoReturn(rs[1])

RECURSIVE writeAtomState(_, _, _)
RECURSIVE atomWrite(_, _, _, _)

\* The setter of writeAtomState (store.ts:327-352) called on a by atom's
\* write function: the atom itself is set in place, another atom is written
\* through its own write function.
WriteSetter(W, atom, a, v) ==
  IF isSelfAtom(atom, a)
  THEN IF ~hasInitialValue(a)
       THEN [W |-> W, out |-> Throw(MkError("atom not writable", atom, 0))]
       ELSE [W |-> SetSelf(W, a, v), out |-> Undefined]
  ELSE writeAtomState(W, a, v)

\* The getter of writeAtomState (store.ts:325):
\* returnAtomValue(readAtomState(a)).
WriteGetterValue(W, a) ==
  [W |-> W, out |-> returnAtomValue(W.as[a],
                                    MkError("no atom init", a, 0))]

WriteGetter(W, a) == WriteGetterValue(readAtomState(W, a), a)

\* The call a write function makes of its getter or of its setter.
WriteCall(W, atom, step) ==
  IF step.op = "get" THEN WriteGetter(W, step.a)
  ELSE WriteSetter(W, atom, step.a, step.v)

\* The write function after a set or get call that ended with r; an error
\* the call threw is caught by no write function.
AfterSet(r, atom, v, rs) ==
  IF r.out.t = "err" THEN r
  ELSE atomWrite(r.W, atom, v, Append(rs, r.out))

\* atomWrite(atom, getter, setter, v) (store.ts:86): run atom's write
\* function; rs is what its set calls have returned so far.
atomWrite(W, atom, v, rs) ==
  IF WriteStep(atom, v, rs).op = "ret"
  THEN [W |-> W, out |-> WriteStep(atom, v, rs).r]
  ELSE IF WriteStep(atom, v, rs).op = "throw"
  THEN [W |-> W, out |-> Throw(MkError("write threw", atom, 0))]
  ELSE AfterSet(WriteCall(W, atom, WriteStep(atom, v, rs)), atom, v, rs)

\* writeAtomState (store.ts:324-356): call atom.write.  An atom built from
\* a read function alone has no write property, so the call throws a
\* TypeError.
writeAtomState(W, atom, v) ==
  IF ~isActuallyWritableAtom(atom)
  THEN [W |-> W, out |-> Throw(MkError("atom.write is not a function", atom, 0))]
  ELSE atomWrite(W, atom, v, <<>>)

\* A function returned by an onMount hook.
Function == [t |-> "fn", v |-> 0, e |-> NoError]

\* m's hook after its setAtom(1) ended with r: it returns a function.
ReturnFunction(r) ==
  IF r.out.t = "err" THEN r ELSE [W |-> r.W, out |-> Function]

\* atomOnMount (store.ts:87): atom.onMount?.(setAtom), setAtom being
\* writeAtomState on the atom (store.ts:380-382).  h's hook throws, m's
\* hook calls setAtom(1) and returns a function, the other atoms have no
\* onMount property.
atomOnMount(W, atom) ==
  CASE atom = "h" -> [W |-> W, out |-> Throw(MkError("onMount", atom, 0))]
    [] atom = "m" -> ReturnFunction(writeAtomState(W, "m", 1))
    [] OTHER -> [W |-> W, out |-> Undefined]

\* if (onUnmount) mounted.onUnmount = ... (store.ts:385-389), mounted being
\* the record mountAtom created or found.
StoreOnUnmount(r, atom) ==
  IF r.out.t = "fn"
  THEN [W |-> [r.W EXCEPT !.mm[atom].onUnmount = r.W.mm[atom].m],
        out |-> Undefined]
  ELSE r

\* processOnMount (store.ts:379-390).
processOnMount(W, atom) ==
  StoreOnUnmount(atomOnMount([W EXCEPT !.hooks = Append(@, atom)], atom), atom)

\* mounted.onUnmount (store.ts:386-388) run as an unmount callback.
RunOnUnmount(W, atom) ==
  [W |-> [W EXCEPT !.cleanups = Append(@, atom)], out |-> Undefined]

\* What the listener functions do: lt and lt2 throw, lw calls
\* store.set(a, 0), every other listener returns.
ListenerThrows(listener) == listener \in {"lt", "lt2"}

ListenerSets(listener) == listener = "lw"

RECURSIVE StoreSet(_, _, _)

\* The listener's frame after the store.set it called ended with r: the
\* errors array and the depth are those of the flush that invoked the
\* listener, and an error store.set threw is now thrown by the listener.
Resume(W, r) ==
  [W |-> [r.W EXCEPT !.errors = W.errors, !.depth = W.depth,
                     !.thrown = "none"],
   out |-> IF r.out.t = "err" THEN r.out ELSE Undefined]

\* fn() for a listener.
InvokeListener(W, listener) ==
  IF ListenerThrows(listener)
  THEN [W |-> W, out |-> Throw(MkError("listener", listener, 0))]
  ELSE IF ListenerSets(listener)
  THEN Resume(W, StoreSet(W, "a", 0))
  ELSE [W |-> W, out |-> Undefined]

\* The catch block of call (store.ts:135-137): errors.push(e).
Caught(r) ==
  IF r.out.t = "err" THEN [r.W EXCEPT !.errors = @ + 1] ELSE r.W

\* call(fn) (store.ts:132-138) for one callback of the set.
call(W, cb) ==
  Caught(CASE cb.k = "listener" ->
                InvokeListener([W EXCEPT !.calls = Append(@, cb.id)], cb.id)
           [] cb.k = "unmount" -> RunOnUnmount(W, cb.id)
           [] OTHER -> processOnMount(W, cb.id))

RECURSIVE RunCallbacks_AbortOnThrow(_, _, _)
\* The rest of forEach when a callback that threw ends it.
AbortOrContinue(W, after, cbs, i) ==
  IF after.errors > W.errors THEN after
  ELSE RunCallbacks_AbortOnThrow(after, cbs, i + 1)

\* callbacks.forEach(call) that stops at the first callback that throws.
RunCallbacks_AbortOnThrow(W, cbs, i) ==
  IF i > Len(cbs) THEN W
  ELSE AbortOrContinue(W, call(W, cbs[i]), cbs, i)

\* callbacks.forEach(call) (store.ts:154).
RECURSIVE RunCallbacks(_, _, _)
RunCallbacks(W, cbs, i) ==
  IF i > Len(cbs) THEN W
  ELSE RunCallbacks(call(W, cbs[i]), cbs, i + 1)

\* The listeners of the mounted atoms among changed[i..], added to the
\* callbacks set acc (a Set holds a function once).
RECURSIVE CollectListeners(_, _, _, _)
RECURSIVE CollectListeners_Array(_, _, _, _)
\* CollectListeners with an array in place of the Set: a function that
\* listens to two changed atoms is held twice.
CollectListeners_Array(W, changed, i, acc) ==
  IF i > Len(changed) THEN acc
  ELSE LET ls == W.mm[changed[i]].listeners
       IN CollectListeners_Array(W, changed, i + 1,
            acc \o [j \in 1..Len(ls) |-> [k |-> "listener", id |-> ls[j]]])

CollectListeners(W, changed, i, acc) ==
  IF i > Len(changed) THEN acc
  ELSE LET ls == W.mm[changed[i]].listeners
           add[j \in 0..Len(ls)] ==
             IF j = 0 THEN acc
             ELSE SeqAdd(add[j - 1], [k |-> "listener", id |-> ls[j]])
       IN CollectListeners(W, changed, i + 1, add[Len(ls)])

\* The callbacks set one round of flushCallbacks builds (store.ts:140-152):
\* the listeners of the changed atoms, then the unmount and the mount
\* callbacks.
Callbacks(W) ==
  CollectListeners(W, W.ch, 1, <<>>)
    \o [j \in 1..Len(W.ucb) |-> [k |-> "unmount", id |-> W.ucb[j]]]
    \o [j \in 1..Len(W.mcb) |-> [k |-> "mount", id |-> W.mcb[j]]]

RECURSIVE FlushLoop(_)
\* if (changedAtoms.size) recomputeInvalidatedAtoms() (store.ts:156-158).
RecomputeIfChanged(W) ==
  IF Len(W.ch) > 0 THEN recomputeInvalidatedAtoms(W) ELSE W

\* A flush whose loop body runs once.
FlushWhile_Once(W) == W

\* The loop condition (store.ts:159); an error thrown by the recompute pass
\* leaves the loop.
FlushWhile(W) ==
  IF W.thrown # "none" THEN W
  ELSE IF Len(W.ch) > 0 \/ Len(W.ucb) > 0 \/ Len(W.mcb) > 0
  THEN FlushLoop(W)
  ELSE W

\* flushCallbacks (store.ts:130-165), from the top of its do-while loop.
FlushLoop(W) ==
  FlushWhile(
    RecomputeIfChanged(
      RunCallbacks([W EXCEPT !.ch = <<>>, !.ucb = <<>>, !.mcb = <<>>],
                   Callbacks(W), 1)))

\* The end of flushCallbacks (store.ts:161-164): the errors the callbacks
\* threw are raised as one AggregateError.
RaiseCollected(W) ==
  [W EXCEPT !.depth = @ - 1,
            !.thrown = IF @ = "none" /\ W.errors > 0
                       THEN "AggregateError" ELSE @]

\* flushCallbacks (store.ts:130-165): a call starts with an empty errors
\* array, whether or not another call of flushCallbacks is running.
flushCallbacks(W) ==
  RaiseCollected(
    FlushLoop([W EXCEPT !.errors = 0, !.depth = @ + 1,
                        !.nest = IF W.depth + 1 > @ THEN W.depth + 1 ELSE @]))

\* ------------------------------------------------------- store operations
\* The error an operation ends with when the store's own code threw.
Internal(W) ==
  Throw(MkError(W.thrown, "none",
                IF W.thrown = "AggregateError" THEN W.errors ELSE 0))

\* What an operation that left W returns to its caller: out, unless the
\* store's own code threw.
Outcome(W, out) ==
  [W |-> W, out |-> IF W.thrown # "none" THEN Internal(W) ELSE out]

\* returnAtomValue(atomState) on the state readAtomState(atom) returned.
ReturnValueOf(W, atom) ==
  [W |-> W, out |-> returnAtomValue(W.as[atom], NoError)]

\* store.get (store.ts:421).
StoreGet(W, atom) == ReturnValueOf(readAtomState(W, atom), atom)

\* flushCallbacks() of the finally block of store.set, which an error
\* thrown by recomputeInvalidatedAtoms() skips.
FlushUnlessThrown(W) ==
  IF W.thrown # "none" THEN W ELSE flushCallbacks(W)

\* store.set that drops what writeAtomState returned.
SetFinally_ReturnUndefined(w) ==
  Outcome(FlushUnlessThrown(recomputeInvalidatedAtoms(w.W)),
          IF w.out.t = "err" THEN w.out ELSE Undefined)

\* store.set with a catch block instead of the finally block: the recompute
\* pass and the flush run only when the write returned.
SetFinally_SkipOnThrow(w) ==
  IF w.out.t = "err" THEN Outcome(w.W, w.out)
  ELSE Outcome(FlushUnlessThrown(recomputeInvalidatedAtoms(w.W)), w.out)

\* The finally block of store.set (store.ts:425-428) after the write w.
SetFinally(w) ==
  Outcome(FlushUnlessThrown(recomputeInvalidatedAtoms(w.W)), w.out)

\* store.set (store.ts:422-429): the finally block runs the recompute pass
\* and the flush whether or not the write threw; an error thrown in the
\* finally block replaces the outcome of the write.
StoreSet(W, atom, v) == SetFinally(writeAtomState(W, atom, v))

\* listeners.add(listener) (store.ts:432-433).
AddListener(W, atom, listener) ==
  [W EXCEPT !.mm[atom].listeners = SeqAdd(@, listener)]

\* store.sub (store.ts:430-434), up to the return of the closure.
StoreSub(W, atom, listener) ==
  Outcome(flushCallbacks(AddListener(mountAtom(W, atom), atom, listener)),
          Undefined)

\* The closure without listeners.delete(listener).
StoreUnsub_KeepListener(W, closure) ==
  Outcome(flushCallbacks(unmountAtom(W, closure.atom)), Undefined)

\* The closure store.sub returns (store.ts:435-439).  cur tells whether
\* the listeners set the closure captured is the one of the atom's present
\* mounted record.
StoreUnsub(W, closure) ==
  Outcome(
    flushCallbacks(
      unmountAtom(
        IF closure.cur
        THEN [W EXCEPT !.mm[closure.atom].listeners = SeqDel(@, closure.l)]
        ELSE W,
        closure.atom)),
    Undefined)

\* ---------------------------------------------------------------- actions
TypeOK ==
  /\ DOMAIN atomStateMap = Atoms
  /\ DOMAIN mountedMap = Atoms
  /\ DOMAIN invalidatedAtoms = Atoms
  /\ Len(subs) <= MaxOps
  /\ last.k <= MaxOps

\* The collections the default parameters of buildStore create, and no
\* closure returned yet.
FreshCollections ==
  [as |-> [x \in Atoms |-> FreshAtomState],
   mm |-> [x \in Atoms |-> NotMounted],
   inv |-> [x \in Atoms |-> NoEntry],
   ch |-> <<>>, mcb |-> <<>>, ucb |-> <<>>, subs |-> <<>>]

\* The state after buildStore(): every map and set is empty.
NewStore ==
  /\ atomStateMap = [x \in Atoms |-> FreshAtomState]
  /\ mountedMap = [x \in Atoms |-> NotMounted]
  /\ invalidatedAtoms = [x \in Atoms |-> NoEntry]
  /\ changedAtoms = <<>>
  /\ mountCallbacks = <<>>
  /\ unmountCallbacks = <<>>
  /\ subs = <<>>
  /\ other = FreshCollections
  /\ last = [k |-> 0, store |-> 1, op |-> "init", atom |-> "none", v |-> 0,
             l |-> "none",
             out |-> Undefined, reads |-> <<>>, calls |-> <<>>, chg |-> {},
             pend |-> {}, invd |-> {}, nest |-> 0, hooks |-> <<>>,
             log |-> <<>>, cleanups |-> <<>>, pass |-> <<>>]

Init == world \in Worlds /\ NewStore

\* A closure whose atom was unmounted holds a listeners set no record has.
Detach(closures, W) ==
  [i \in 1..Len(closures) |->
     [closures[i] EXCEPT !.cur = @ /\ closures[i].atom \notin W.dropped]]

\* The store after an operation that left r.W and returned r.out, and the
\* record of the operation: k counts the operations so far, chg is the set
\* of atoms whose version the operation changed.  store.sub returns a new
\* closure, and the closure that ran is marked (v is its index).
Commit(r, op, atom, v, l) ==
  /\ last.k < MaxOps
  /\ world' = world
  /\ atomStateMap' = r.W.as
  /\ mountedMap' = r.W.mm
  /\ invalidatedAtoms' = r.W.inv
  /\ changedAtoms' = r.W.ch
  /\ mountCallbacks' = r.W.mcb
  /\ unmountCallbacks' = r.W.ucb
  /\ subs' = CASE op = "sub" /\ r.out.t # "err" ->
                    Append(Detach(subs, r.W),
                           [atom |-> atom, l |-> l, cur |-> TRUE,
                            called |-> FALSE])
               [] op = "unsub" ->
                    [Detach(subs, r.W) EXCEPT ![v].called = TRUE]
               [] OTHER -> Detach(subs, r.W)
  /\ other' = other
  /\ last' = [k |-> last.k + 1, store |-> 1, op |-> op, atom |-> atom,
              v |-> v, l |-> l, out |-> r.out, reads |-> r.W.reads, calls |-> r.W.calls,
              chg |-> {x \in Atoms : r.W.as[x].n # atomStateMap[x].n},
              pend |-> r.W.pend, invd |-> r.W.invd,
              nest |-> r.W.nest, hooks |-> r.W.hooks, log |-> r.W.log,
              cleanups |-> r.W.cleanups, pass |-> r.W.pass]

\* store.get(atom)
Get(atom) == Commit(StoreGet(Work, atom), "get", atom, 0, "none")

\* store.set(atom, v)
Set(atom, v) == Commit(StoreSet(Work, atom, v), "set", atom, v, "none")

\* Listener functions are interchangeable: l2 is first used after l1.
NextListeners ==
  CASE world = "faulty" -> IF subs = <<>> THEN {"l1", "lt"}
                           ELSE {"l1", "lt", "lt2"}
    [] world = "reentrant" -> {"l1", "lw"}
    [] world = "writer" -> {"l1", "lt"}
    [] OTHER -> IF subs = <<>> THEN {"l1"} ELSE Listeners

\* unsubscribe = store.sub(atom, listener)
Sub(atom, listener) ==
  Commit(StoreSub(Work, atom, listener), "sub", atom, 0, listener)

\* unsubscribe(), for the i-th closure store.sub returned
Unsub(i) ==
  Commit(StoreUnsub(Work, subs[i]), "unsub", subs[i].atom, i, subs[i].l)

Next ==
  \/ \E atom \in WorldAtoms(world) : Get(atom)
  \/ \E atom \in WorldAtoms(world) : \E v \in Values :
       isActuallyWritableAtom(atom) /\ Set(atom, v)
  \/ \E atom \in WorldAtoms(world) :
       ~isActuallyWritableAtom(atom) /\ Set(atom, 0)
  \/ \E atom \in WorldAtoms(world) : \E listener \in NextListeners :
       Sub(atom, listener)
  \/ \E i \in 1..Len(subs) : Unsub(i)

Spec == Init /\ [][Next]_vars

\* A new store that is used with one group of atoms only.
InitDouble == Init /\ world = "double"

InitDiamond == Init /\ world = "diamond"

InitError == Init /\ world = "error"

\* A new store used with the atom that reads b1 on one branch only.
InitCond == world = "cond" /\ NewStore

SpecDouble == InitDouble /\ [][Next]_vars

SpecDiamond == InitDiamond /\ [][Next]_vars

SpecError == InitError /\ [][Next]_vars

SpecCond == InitCond /\ [][Next]_vars

\* A new store whose listeners include one that throws, used with an atom
\* whose onMount hook throws.
InitFaulty == world = "faulty" /\ NewStore

SpecFaulty == InitFaulty /\ [][Next]_vars

\* A new store whose listeners include one that calls store.set.
InitReentrant == world = "reentrant" /\ NewStore

SpecReentrant == InitReentrant /\ [][Next]_vars

\* A new store used with an atom whose onMount hook writes the atom and
\* returns a function.
InitHook == world = "hook" /\ NewStore

SpecHook == InitHook /\ [][Next]_vars

\* A new store used with an atom that can recompute to the value it had.
InitGate == world = "gate" /\ NewStore

SpecGate == InitGate /\ [][Next]_vars

\* A new store used with an atom whose write function reads a derived atom.
InitChain == world = "chain" /\ NewStore

SpecChain == InitChain /\ [][Next]_vars

\* A new store used with an atom whose write function sets two primitives.
InitFan == world = "fan" /\ NewStore

SpecFan == InitFan /\ [][Next]_vars

\* A new store used with an atom whose read function reads the atom itself.
InitSelf == world = "self" /\ NewStore

SpecSelf == InitSelf /\ [][Next]_vars

\* A new store used with an atom whose write function reads the double
\* atom after writing a.
InitWget == world = "wget" /\ NewStore

SpecWget == InitWget /\ [][Next]_vars

\* A new store used with an atom whose write function throws after a write.
InitWthrow == world = "wthrow" /\ NewStore

SpecWthrow == InitWthrow /\ [][Next]_vars

\* A new store used with a writable derived atom.
InitWriter == world = "writer" /\ NewStore

SpecWriter == InitWriter /\ [][Next]_vars

\* --------------------------------------------------------- a second store
\* createStore() calls buildStore() without arguments, so the default
\* parameters build a new atomStateMap for the store.
createStore_SharedAtomStateMap == "shared"

createStore == "new"

OtherListeners == {"k1"}

\* The second store's working store: the collections its closures captured.
OtherWork ==
  [as |-> IF createStore = "new" THEN other.as ELSE atomStateMap,
   mm |-> other.mm, inv |-> other.inv, ch |-> other.ch, mcb |-> other.mcb,
   ucb |-> other.ucb, reads |-> <<>>, calls |-> <<>>, pend |-> {},
   invd |-> {}, dropped |-> {}, thrown |-> "none", errors |-> 0,
   depth |-> 0, nest |-> 0, hooks |-> <<>>, log |-> <<>>,
   cleanups |-> <<>>, pass |-> <<>>]

\* An operation of the second store writes the collections that store
\* captured; the first store's variables are read by its own closures only.
CommitOther(r, op, atom, v, l) ==
  /\ last.k < MaxOps
  /\ world' = world
  /\ atomStateMap' = IF createStore = "new" THEN atomStateMap ELSE r.W.as
  /\ UNCHANGED <<mountedMap, invalidatedAtoms, changedAtoms, mountCallbacks,
                 unmountCallbacks, subs>>
  /\ other' =
       [as |-> IF createStore = "new" THEN r.W.as ELSE other.as,
        mm |-> r.W.mm, inv |-> r.W.inv, ch |-> r.W.ch, mcb |-> r.W.mcb,
        ucb |-> r.W.ucb,
        subs |-> CASE op = "sub" /\ r.out.t # "err" ->
                        Append(Detach(other.subs, r.W),
                               [atom |-> atom, l |-> l, cur |-> TRUE,
                                called |-> FALSE])
                   [] op = "unsub" ->
                        [Detach(other.subs, r.W) EXCEPT ![v].called = TRUE]
                   [] OTHER -> Detach(other.subs, r.W)]
  /\ last' = [k |-> last.k + 1, store |-> 2, op |-> op, atom |-> atom,
              v |-> v, l |-> l, out |-> r.out,
              reads |-> r.W.reads, calls |-> r.W.calls,
              chg |-> {x \in Atoms : r.W.as[x].n # OtherWork.as[x].n},
              pend |-> r.W.pend, invd |-> r.W.invd,
              nest |-> r.W.nest, hooks |-> r.W.hooks, log |-> r.W.log,
              cleanups |-> r.W.cleanups, pass |-> r.W.pass]

GetOther(atom) ==
  CommitOther(StoreGet(OtherWork, atom), "get", atom, 0, "none")

SetOther(atom, v) ==
  CommitOther(StoreSet(OtherWork, atom, v), "set", atom, v, "none")

SubOther(atom, listener) ==
  CommitOther(StoreSub(OtherWork, atom, listener), "sub", atom, 0, listener)

UnsubOther(i) ==
  CommitOther(StoreUnsub(OtherWork, other.subs[i]), "unsub",
              other.subs[i].atom, i, other.subs[i].l)

NextTwo ==
  \/ Next
  \/ \E atom \in WorldAtoms(world) : GetOther(atom)
  \/ \E atom \in WorldAtoms(world) : \E v \in Values :
       isActuallyWritableAtom(atom) /\ SetOther(atom, v)
  \/ \E atom \in WorldAtoms(world) : \E listener \in OtherListeners :
       SubOther(atom, listener)
  \/ \E i \in 1..Len(other.subs) : UnsubOther(i)

\* setAtom(v) (store.ts:380-382) called after the store.sub that ran m's
\* onMount hook has returned: the hook kept the setAtom it was handed.
SetAtom(v) ==
  /\ Len(subs) > 0
  /\ Commit(writeAtomState(Work, "m", v), "setAtom", "m", v, "none")

NextLate ==
  \/ Next
  \/ \E v \in Values : SetAtom(v)

\* A new store used with an atom whose onMount hook keeps its setAtom.
InitLate == world = "late" /\ NewStore

SpecLate == InitLate /\ [][NextLate]_vars

\* Two stores built by createStore and used with the same atoms a and b1.
InitTwo == world = "two" /\ NewStore

SpecTwo == InitTwo /\ [][NextTwo]_vars

\* Both stores after the same call was made on each: r is what it left and
\* returned in the first store, r2 in the second.
PairCommit(r, r2, op, atom, v) ==
  /\ last.k < MaxOps
  /\ world' = world
  /\ atomStateMap' = r.W.as
  /\ mountedMap' = r.W.mm
  /\ invalidatedAtoms' = r.W.inv
  /\ changedAtoms' = r.W.ch
  /\ mountCallbacks' = r.W.mcb
  /\ unmountCallbacks' = r.W.ucb
  /\ subs' = Detach(subs, r.W)
  /\ other' = [as |-> r2.W.as, mm |-> r2.W.mm, inv |-> r2.W.inv,
               ch |-> r2.W.ch, mcb |-> r2.W.mcb, ucb |-> r2.W.ucb,
               subs |-> other.subs]
  /\ last' = [k |-> last.k + 1, store |-> 1, op |-> op, atom |-> atom,
              v |-> v, l |-> "none", out |-> r.out, reads |-> r.W.reads,
              calls |-> r.W.calls,
              chg |-> {x \in Atoms : r.W.as[x].n # atomStateMap[x].n},
              pend |-> r.W.pend, invd |-> r.W.invd,
              nest |-> r.W.nest, hooks |-> r.W.hooks, log |-> r.W.log,
              cleanups |-> r.W.cleanups, pass |-> r.W.pass]

\* store.get(atom) on both stores
PairGet(atom) ==
  PairCommit(StoreGet(Work, atom), StoreGet(OtherWork, atom), "get", atom, 0)

\* store.set(atom, v) on both stores
PairSet(atom, v) ==
  PairCommit(StoreSet(Work, atom, v), StoreSet(OtherWork, atom, v),
             "set", atom, v)

\* store.sub(atom, listener) on the first store, before any get or set
SubFirst(atom, listener) ==
  last.op \in {"init", "sub"} /\ Sub(atom, listener)

NextPair ==
  \/ \E atom \in WorldAtoms(world) : \E listener \in NextListeners :
       SubFirst(atom, listener)
  \/ \E atom \in WorldAtoms(world) : PairGet(atom)
  \/ \E atom \in WorldAtoms(world) : \E v \in Values :
       isActuallyWritableAtom(atom) /\ PairSet(atom, v)

\* Two new stores that receive the same store.get and store.set calls; atoms
\* are subscribed in the first store only.
InitPair == world = "pair" /\ NewStore

SpecPair == InitPair /\ [][NextPair]_vars

\* ------------------------------------------------------------- properties
\* How often x occurs in the sequence s.
Count(s, x) == Cardinality({i \in 1..Len(s) : s[i] = x})

\* The first place of x in s (0 when it does not occur).
FirstAt(s, x) ==
  IF SeqHas(s, x) THEN CHOOSE i \in 1..Len(s) : s[i] = x /\ \A j \in 1..(i - 1) : s[j] # x
  ELSE 0

DerivedAtoms == {x \in WorldAtoms(world) : ~hasInitialValue(x)}

Mounted(x) == mountedMap[x].m

HasListener(x) == Mounted(x) /\ Len(mountedMap[x].listeners) > 0

\* What atom's read function yields when every get(x) in it returns what
\* x's own read function yields, down to primitive a holding av.
RECURSIVE Denote(_, _, _)
Denote(atom, av, vs) ==
  LET step == ReadStep(atom, vs)
  IN CASE step.op = "ret" -> Val(step.v)
       [] step.op = "throw" -> Throw(MkError("read threw", atom, 0))
       [] OTHER ->
            LET g == IF hasInitialValue(step.a) THEN Val(av)
                     ELSE Denote(step.a, av, <<>>)
            IN IF g.t = "err" THEN g ELSE Denote(atom, av, Append(vs, g.v))

\* C1: after store.set(a, v) returns, store.get(b1) returns 2 * v, whether
\* b1 is mounted or not, and b1's read function runs exactly once per
\* change of a, however often store.get(b1) is called before the next write
\* (here: twice).
C1_DerivedCorrect ==
  (last.op = "set" /\ last.atom = "a" /\ "b1" \in WorldAtoms(world)) =>
    LET g1 == StoreGet(Work, "b1")
        g2 == StoreGet(g1.W, "b1")
    IN /\ g1.out = Val(2 * last.v)
       /\ g2.out = Val(2 * last.v)
       /\ "a" \in last.chg =>
            Count(last.reads, "b1") + Count(g2.W.reads, "b1") = 1

\* C2: on a store where nothing has been evaluated, the first store.get(D)
\* or store.sub(D, l) on a derived atom D evaluates D's dependencies and
\* leaves D with the value its read function yields from the initial
\* values.
C2_FirstReadEvaluatesDeps ==
  (last.k = 1 /\ last.op \in {"get", "sub"} /\ last.atom \in DerivedAtoms) =>
    /\ \A i \in 1..Len(atomStateMap[last.atom].dependencies) :
         isAtomStateInitialized(
           atomStateMap[atomStateMap[last.atom].dependencies[i].a])
    /\ returnAtomValue(atomStateMap[last.atom], NoError)
         = Denote(last.atom, InitOf("a"), <<>>)

\* C3: in every state and for every atom, two consecutive store.get calls
\* return the same value (or throw the same error) and the atom's read
\* function runs at most once over the two calls.
C3_Memoization ==
  \A atom \in WorldAtoms(world) :
    LET g1 == StoreGet(Work, atom)
        g2 == StoreGet(g1.W, atom)
    IN g1.out = g2.out /\ Count(g2.W.reads, atom) <= 1

\* C4: with a listener subscribed to c, a store.set(a, x) that changes a runs
\* c's read function exactly once, after b1 and b2 have been recomputed, and
\* invokes each listener of c exactly once.
C4_DiamondDedup ==
  (world = "diamond" /\ last.op = "set" /\ last.atom = "a"
     /\ "a" \in last.chg /\ HasListener("c")) =>
    /\ Count(last.reads, "c") = 1
    /\ 0 < FirstAt(last.reads, "b1")
    /\ FirstAt(last.reads, "b1") < FirstAt(last.reads, "c")
    /\ 0 < FirstAt(last.reads, "b2")
    /\ FirstAt(last.reads, "b2") < FirstAt(last.reads, "c")
    /\ \A i \in 1..Len(mountedMap["c"].listeners) :
         Count(last.calls, mountedMap["c"].listeners[i]) = 1

\* The step of C5, with a listener subscribed to b1 (double): a store.set(a, v) after
\* which store.get(b1) returns something else than before invokes every
\* listener of b1 exactly once and leaves store.get(b1) = 2 * v; a
\* store.set(a, v) with v the current value of a invokes no listener.
C5_Step ==
  (last'.op = "set" /\ last'.atom = "a" /\ HasListener("b1")) =>
    /\ StoreGet(Work, "b1").out # StoreGet(Work, "b1").out' =>
         /\ \A i \in 1..Len(mountedMap["b1"].listeners) :
              Count(last'.calls, mountedMap["b1"].listeners[i]) = 1
         /\ StoreGet(Work, "b1").out' = Val(2 * last'.v)
    /\ returnAtomValue(atomStateMap["a"], NoError) = Val(last'.v) =>
         last'.calls = <<>>

\* C5: every store.set(a, v) made while b1 has a listener invokes each
\* listener of b1 exactly once and leaves store.get(b1) = 2 * v when it
\* changes b1's value, and invokes no listener when v is a's current value.
C5_ListenerOnce == [][C5_Step]_vars

\* a listener on b1 was invoked once by a store.set(a, v) that changed b1
C5_Witness ==
  /\ last.op = "set" /\ last.atom = "a" /\ HasListener("b1")
  /\ "b1" \in last.chg
  /\ last.calls = mountedMap["b1"].listeners
  /\ atomStateMap["b1"].value = 2 * last.v

\* The value store.set(a, v) compares v with: a's value, or its init value
\* when a has never been read or written.
CurrentOrInit(atom) ==
  IF atomStateMap[atom].hasValue THEN atomStateMap[atom].value ELSE InitOf(atom)

\* What C6 says a store.set does: no version changes, nothing enters the
\* pending-change set, no dependent is invalidated, no listener is invoked.
NoEffect(rec) ==
  rec.chg = {} /\ rec.pend = {} /\ rec.invd = {} /\ rec.calls = <<>>

\* The step of C6 as stated: store.set of a primitive to a value equal to its current
\* value, or to its init value when it has never been read or written, has
\* no effect on versions, pending changes, invalidation or listeners.
C6_Step_Original ==
  (last'.op = "set" /\ last'.atom = "a" /\ last'.v = CurrentOrInit("a")) =>
    NoEffect(last')

\* C6 as stated: every store.set(a, v) with v equal to a's current value, or
\* to its init value when a was never read or written, has no effect.
C6_NoOpWrite_Original == [][C6_Step_Original]_vars

\* The step of C6 as amended: the same, for a primitive that already holds
\* a value.
C6_Step ==
  (last'.op = "set" /\ last'.atom = "a" /\ atomStateMap["a"].hasValue
     /\ last'.v = atomStateMap["a"].value) =>
    NoEffect(last')

\* C6 as amended: every store.set(a, v) on a primitive that holds a value
\* Object.is-equal to v changes no version, adds nothing to the
\* pending-change set, invalidates no dependent and invokes no listener.
C6_NoOpWrite == [][C6_Step]_vars

\* a store.set(a, v) without effect, while b1 is mounted with a listener
C6_Witness ==
  /\ last.op = "set" /\ last.atom = "a" /\ NoEffect(last)
  /\ atomStateMap["a"].value = last.v
  /\ HasListener("b1")

\* The step of C7: once a derived atom's read function has thrown, store.get re-throws
\* the cached error without running the read function again as long as
\* nothing is written: of two consecutive store.get calls on the atom of
\* which the first throws, the second throws the same error and runs no
\* read function of the atom.
C7_Step ==
  (last.op = "get" /\ last.out.t = "err" /\ last.atom \in DerivedAtoms
     /\ last'.op = "get" /\ last'.atom = last.atom) =>
    last'.out = last.out /\ ~SeqHas(last'.reads, last.atom)

\* C7: a store.get on a derived atom that directly follows a store.get on
\* it that threw re-throws the same cached error without running the atom's
\* read function.
C7_ErrorSticky == [][C7_Step]_vars

\* The place of the last run of x in the operation's reads (0: none).
LastAt(s, x) ==
  IF SeqHas(s, x) THEN CHOOSE i \in 1..Len(s) : s[i] = x /\ \A j \in (i + 1)..Len(s) : s[j] # x
  ELSE 0

\* C8: when f (reading e without catching) is evaluated while e is in the
\* error state, f records e as a dependency and holds e's error, and a
\* store.get(f) that does so throws that error; and when f holds an error of
\* e (an error object created by e's evaluation has src "e") and e has
\* since been recomputed to a value, store.get(f) recomputes f and returns
\* its value.
C8_ErrorPropagates ==
  world = "error" =>
    /\ (/\ SeqHas(last.reads, "f")
        /\ LastAt(last.reads, "e") < LastAt(last.reads, "f")
        /\ atomStateMap["e"].hasError) =>
         /\ "e" \in MapKeys(atomStateMap["f"].dependencies)
         /\ atomStateMap["f"].hasError
         /\ atomStateMap["f"].error = atomStateMap["e"].error
         /\ (last.op = "get" /\ last.atom = "f") =>
              last.out = Throw(atomStateMap["e"].error)
    /\ (/\ atomStateMap["f"].hasError
        /\ atomStateMap["f"].error.src = "e"
        /\ atomStateMap["e"].hasValue) =>
         LET g == StoreGet(Work, "f")
         IN g.out = Val(atomStateMap["e"].value + 1) /\ SeqHas(g.W.reads, "f")

\* The step of C9: when a store.set makes the recompute of a mounted derived atom throw,
\* the atom's version changes, the atom enters the pending-change set and
\* each of its listeners is invoked exactly once.
C9_Step ==
  last'.op = "set" =>
    \A x \in DerivedAtoms :
      (Mounted(x) /\ SeqHas(last'.reads, x) /\ atomStateMap'[x].hasError) =>
        /\ x \in last'.chg
        /\ x \in last'.pend
        /\ \A i \in 1..Len(mountedMap[x].listeners) :
             Count(last'.calls, mountedMap[x].listeners[i]) = 1

\* C9: every store.set that makes the recompute of a mounted derived atom
\* throw changes its version, puts it in the pending-change set and invokes
\* each of its listeners exactly once.
C9_ErrorNotifies == [][C9_Step]_vars

\* a store.set made the read function of mounted e throw and e's listener
\* was invoked
C9_Witness ==
  /\ world = "error" /\ last.op = "set"
  /\ SeqHas(last.reads, "e")
  /\ atomStateMap["e"].hasError /\ atomStateMap["e"].error.kind = "read threw"
  /\ HasListener("e")
  /\ last.calls = mountedMap["e"].listeners

\* The atoms x depends on through mounted-record dependencies.
RECURSIVE DepClosure(_, _)
DepClosure(S, k) ==
  IF k = 0 THEN S
  ELSE DepClosure(S \cup UNION {mountedMap[y].dependencies : y \in S}, k - 1)

\* The step of C10: when unsubscribe removes the last listener of an atom that no
\* mounted atom lists as a dependency, the atom is unmounted, and so is each
\* of its dependencies left without listener and mounted dependent, while a
\* dependency with a listener or a mounted dependent stays mounted.
C10_Step ==
  LET x == last'.atom
      closure == subs[last'.v]
  IN (/\ last'.op = "unsub"
      /\ Mounted(x) /\ closure.cur
      /\ mountedMap[x].listeners = <<closure.l>>
      /\ ~\E z \in Atoms : Mounted(z) /\ x \in mountedMap[z].dependencies) =>
       /\ ~mountedMap'[x].m
       /\ \A y \in DepClosure({x}, Cardinality(Atoms)) \ {x} :
            mountedMap'[y].m <=>
              \/ Len(mountedMap[y].listeners) > 0
              \/ \E z \in Atoms : mountedMap'[z].m /\ y \in mountedMap'[z].dependencies

C11_LazyUnmounted ==
  \A v \in Values :
    LET s == StoreSet(Work, "a", v)
    IN /\ \A i \in 1..Len(s.W.reads) : s.W.mm[s.W.reads[i]].m
       /\ \A x \in DerivedAtoms :
            (/\ atomStateMap[x].hasValue
             /\ ~s.W.mm[x].m
             /\ Denote(x, v, <<>>).t = "val") =>
              StoreGet(s.W, x).out = Denote(x, v, <<>>)

\* The step of C12: store.set on an atom that has no write function throws
\* and leaves atom states and mounted records as they were, and no listener
\* is invoked.
C12_Step ==
  (last'.op = "set" /\ ~isActuallyWritableAtom(last'.atom)) =>
    /\ last'.out.t = "err"
    /\ last'.out.e.kind = "atom.write is not a function"
    /\ atomStateMap' = atomStateMap
    /\ mountedMap' = mountedMap
    /\ last'.calls = <<>>

\* C12: every store.set on a descriptor without a write function fails with
\* an error, changes no atom's value, error, version, dependencies or
\* mounted record, and invokes no listener.
C12_SetReadOnlyFails == [][C12_Step]_vars

\* store.set was called on derived atom b1 while it was mounted with a
\* listener, and threw
C12_Witness ==
  /\ last.op = "set" /\ last.atom = "b1" /\ last.out.t = "err"
  /\ HasListener("b1") /\ atomStateMap["b1"].hasValue

LiveListeners(closures) ==
  {closures[i].l : i \in {j \in 1..Len(closures) : ~closures[j].called}}

\* The step of C14: a listener that a store operation invokes belongs to a
\* subscription that has not been unsubscribed when the operation starts,
\* or is the listener a store.sub is subscribing.
C14_Step ==
  \A i \in 1..Len(last'.calls) :
    \/ last'.calls[i] \in LiveListeners(subs)
    \/ last'.op = "sub" /\ last'.calls[i] = last'.l

\* C14: once the unsubscribe closure of a subscription has returned, its
\* listener is not invoked by any later store operation unless the same
\* listener is subscribed again.
C14_NoCallAfterUnsub == [][C14_Step]_vars

\* a store.set changed an atom and invoked its remaining listener, but not
\* the listener that had been unsubscribed from it
C14_Witness ==
  /\ last.op = "set" /\ last.calls # <<>>
  /\ \E i \in 1..Len(subs) :
       /\ subs[i].called
       /\ subs[i].atom \in last.chg
       /\ HasListener(subs[i].atom)
       /\ ~SeqHas(last.calls, subs[i].l)

\* C15: after every store operation an atom has a mounted record if and
\* only if it has a listener or is in the mounted-record dependencies of
\* another mounted atom.
C15_MountInvariant ==
  \A x \in WorldAtoms(world) :
    Mounted(x) <=>
      \/ Len(mountedMap[x].listeners) > 0
      \/ \E y \in WorldAtoms(world) \ {x} :
           Mounted(y) /\ x \in mountedMap[y].dependencies

\* C20: when b1 has a cached value, neither b1 nor d is mounted, and flag
\* is set, a store.get(d) that takes the branch reading b1 returns b1 recomputed
\* from the current value of a (2 * a), never b1's old cached value.
C20_NoStaleBranchRead ==
  (/\ world = "cond"
   /\ atomStateMap["flag"].hasValue /\ atomStateMap["flag"].value # 0
   /\ atomStateMap["a"].hasValue
   /\ atomStateMap["b1"].hasValue /\ ~Mounted("b1") /\ ~Mounted("d")) =>
     StoreGet(Work, "d").out = Val(2 * atomStateMap["a"].value)

\* C16: with two stores built by createStore and the same atoms, an
\* operation on one store leaves the atom states (values, versions) and
\* the mounted records (with their listeners) of the other store unchanged
\* and invokes no listener that was registered on the other store.
C16_Step ==
  /\ last'.store = 2 =>
       /\ atomStateMap' = atomStateMap
       /\ mountedMap' = mountedMap
       /\ \A i \in 1..Len(last'.calls) : last'.calls[i] \notin Listeners
  /\ last'.store = 1 =>
       /\ OtherWork'.as = OtherWork.as
       /\ OtherWork'.mm = OtherWork.mm
       /\ \A i \in 1..Len(last'.calls) : last'.calls[i] \notin OtherListeners

C16_StoreIndependence == [][C16_Step]_vars

\* a write on the second store notified that store's listener of a while
\* the first store holds another value of a and has its own listener on a
C16_Witness ==
  /\ world = "two" /\ last.store = 2 /\ last.op = "set"
  /\ last.calls = <<"k1">>
  /\ HasListener("a")
  /\ atomStateMap["a"].hasValue /\ other.as["a"].hasValue
  /\ atomStateMap["a"].value # other.as["a"].value

\* The number of callbacks an operation ran that threw.
ThrownBy(op) ==
  Count(op.calls, "lt") + Count(op.calls, "lt2") + Count(op.hooks, "h")

\* C17: when a listener or a mount hook throws during the flush of a store
\* operation, every listener of every mounted atom that entered the
\* pending-change set and the mount callback of every newly mounted
\* writable atom is still invoked, the operation ends with empty
\* pending-change set and callback queues, and it throws one AggregateError
\* holding all the errors thrown; it throws no AggregateError otherwise.
C17_Step ==
  /\ (last'.k # last.k /\ ThrownBy(last') > 0) =>
       /\ last'.out = Throw(MkError("AggregateError", "none", ThrownBy(last')))
       /\ changedAtoms' = <<>>
       /\ mountCallbacks' = <<>> /\ unmountCallbacks' = <<>>
       /\ \A x \in last'.pend :
            mountedMap'[x].m =>
              \A i \in 1..Len(mountedMap'[x].listeners) :
                SeqHas(last'.calls, mountedMap'[x].listeners[i])
       /\ \A x \in WorldAtoms(world) :
            (/\ mountedMap'[x].m /\ ~mountedMap[x].m
             /\ isActuallyWritableAtom(x)) => SeqHas(last'.hooks, x)
  /\ (last'.k # last.k /\ ThrownBy(last') = 0) =>
       ~(last'.out.t = "err" /\ last'.out.e.kind = "AggregateError")

C17_CallbackErrorsCollected == [][C17_Step]_vars

\* a store.set invoked the throwing listener and, after it, another
\* listener, and then threw the AggregateError
C17_Witness ==
  /\ world = "faulty" /\ last.op = "set"
  /\ SeqHas(last.calls, "lt") /\ SeqHas(last.calls, "l1")
  /\ FirstAt(last.calls, "lt") < FirstAt(last.calls, "l1")
  /\ last.out.t = "err" /\ last.out.e.kind = "AggregateError"
  /\ last.out.e.n = 1

\* C18: a store.set issued by a listener while flushCallbacks is running
\* starts no second flush loop: no store operation ever has more than one
\* flushCallbacks call running at a time.
C18_NoNestedFlush == last.nest <= 1

\* What the write function of a writable atom returns for the argument v:
\* v + 100 for w, undefined for a primitive atom.
WriteReturns(atom, v) == IF atom = "w" THEN Val(v + 100) ELSE Undefined

\* C19: a store.set on a writable atom during whose flush no callback
\* throws returns what the atom's write function returned; undefined for a
\* primitive atom.
C19_Step ==
  (/\ last'.op = "set" /\ isActuallyWritableAtom(last'.atom)
   /\ ThrownBy(last') = 0) =>
     last'.out = WriteReturns(last'.atom, last'.v)

C19_SetReturnsWriteResult == [][C19_Step]_vars

\* store.set(w, 1) changed a, notified a listener and returned 101
C19_Witness ==
  /\ world = "writer" /\ last.op = "set" /\ last.atom = "w"
  /\ last.out = Val(101)
  /\ atomStateMap["a"].value = 1 /\ "a" \in last.chg
  /\ SeqHas(last.calls, "l1")

\* The entries get(a) calls left in log after the last run of x's read
\* function started.
LastReads(log, x) ==
  LET start == CHOOSE i \in 1..Len(log) :
                 /\ log[i].atom = x /\ log[i].a = "start"
                 /\ \A j \in (i + 1)..Len(log) :
                      ~(log[j].atom = x /\ log[j].a = "start")
  IN {[a |-> log[j].a, n |-> log[j].n] :
        j \in {k \in (start + 1)..Len(log) : log[k].atom = x}}

\* C21: after an operation that ran x's read function, x's dependencies map
\* holds exactly the atoms the last run read, each with the version it had
\* when read, and never x itself.
C21_Step ==
  \A x \in Atoms :
    SeqHas(last'.reads, x) =>
      /\ {atomStateMap'[x].dependencies[i] :
            i \in 1..Len(atomStateMap'[x].dependencies)} = LastReads(last'.log, x)
      /\ \A i \in 1..Len(atomStateMap'[x].dependencies) :
           atomStateMap'[x].dependencies[i].a # x

C21_DependenciesExact == [][C21_Step]_vars

\* d was evaluated reading flag and b1, and its last evaluation read flag
\* only: b1 is no longer among its dependencies
C21_Witness ==
  /\ world = "cond" /\ SeqHas(last.reads, "d")
  /\ "b1" \in mountedMap["d"].dependencies
  /\ MapKeys(atomStateMap["d"].dependencies) = {"flag"}
  /\ atomStateMap["d"].hasValue

\* C22: over a store operation the version of an atom never decreases, and
\* it increases only if the atom holds a value it did not hold before or
\* the atom moved between the error state and the value state; so the
\* version is unchanged when the atom ends with the value it had, or in the
\* error state it was in.
C22_Step ==
  \A x \in WorldAtoms(world) :
    /\ atomStateMap'[x].n >= atomStateMap[x].n
    /\ atomStateMap'[x].n > atomStateMap[x].n =>
         \/ /\ atomStateMap'[x].hasValue
            /\ ~atomStateMap[x].hasValue \/ atomStateMap'[x].value # atomStateMap[x].value
         \/ atomStateMap'[x].hasError # atomStateMap[x].hasError

C22_VersionMonotone == [][C22_Step]_vars

\* C23: no atom state holds both a value and an error; an atom whose read
\* function has run (its version is then positive) holds exactly one of
\* them; and every mounted atom holds one of them.
C23_ValueXorError ==
  \A x \in WorldAtoms(world) :
    /\ ~(atomStateMap[x].hasValue /\ atomStateMap[x].hasError)
    /\ (atomStateMap[x].n > 0 \/ SeqHas(last.reads, x)) =>
         isAtomStateInitialized(atomStateMap[x])
    /\ Mounted(x) => isAtomStateInitialized(atomStateMap[x])

\* a store.set recomputed the mounted atom e, which had been evaluated
\* before, and e now holds an error and no value
C23_Witness ==
  /\ last.op = "set" /\ SeqHas(last.reads, "e") /\ HasListener("e")
  /\ atomStateMap["e"].hasError /\ ~atomStateMap["e"].hasValue
  /\ atomStateMap["e"].n > 1

\* C24: the onMount hook of a writable atom runs once in an operation that
\* takes the atom from unmounted to mounted, and not at all in an operation
\* that finds the atom mounted.
C24_Step ==
  \A x \in WorldAtoms(world) :
    isActuallyWritableAtom(x) =>
      Count(last'.hooks, x) =
        IF ~mountedMap[x].m /\ mountedMap'[x].m THEN 1 ELSE 0

C24_MountOncePerTransition == [][C24_Step]_vars

\* C25: an operation that unmounts an atom whose mounted record holds an
\* unmount hook runs that hook exactly once.
C25_Step ==
  \A x \in WorldAtoms(world) :
    (mountedMap[x].m /\ mountedMap[x].onUnmount /\ ~mountedMap'[x].m) =>
      Count(last'.cleanups, x) = 1

C25_UnmountHookRuns == [][C25_Step]_vars

\* C26: in the recompute pass of a store.set no atom is processed twice
\* and no read function runs twice, and an atom is processed (and its read
\* function runs) only after every mounted dependency of it that the pass
\* processes.
C26_Step ==
  last'.op = "set" =>
    \A x \in WorldAtoms(world) :
      /\ Count(last'.pass, x) <= 1
      /\ Count(last'.reads, x) <= 1
      /\ \A y \in mountedMap[x].dependencies :
           (SeqHas(last'.pass, x) /\ SeqHas(last'.pass, y)) =>
             /\ FirstAt(last'.pass, y) < FirstAt(last'.pass, x)
             /\ (SeqHas(last'.reads, x) /\ SeqHas(last'.reads, y)) =>
                  FirstAt(last'.reads, y) < FirstAt(last'.reads, x)

C26_DependencyOrder == [][C26_Step]_vars

\* a store.set on a ran the read functions of b1 and b2 and then the one
\* of c, which is mounted and reads both
C26_Witness ==
  /\ world = "diamond" /\ last.op = "set" /\ last.atom = "a"
  /\ HasListener("c") /\ mountedMap["c"].dependencies = {"b1", "b2"}
  /\ Len(last.reads) = 3 /\ last.reads[3] = "c"
  /\ Len(last.pass) = 3 /\ last.pass[3] = "c"

\* C27: in a store.set the read function of a mounted derived atom runs
\* only if one of its recorded dependencies entered the pending-change set;
\* an atom that recomputes to the value it had does not enter that set, and
\* a listener is invoked only if it listens to an atom that entered it.
C27_Step ==
  last'.op = "set" =>
    /\ \A x \in DerivedAtoms :
         /\ (mountedMap[x].m /\ SeqHas(last'.reads, x)) =>
              \E dep \in MapKeys(atomStateMap[x].dependencies) :
                dep \in last'.pend
         /\ (/\ atomStateMap[x].hasValue /\ atomStateMap'[x].hasValue
             /\ atomStateMap'[x].value = atomStateMap[x].value) =>
              x \notin last'.pend
    /\ \A i \in 1..Len(last'.calls) :
         \E y \in last'.pend : SeqHas(mountedMap'[y].listeners, last'.calls[i])

C27_RerunMinimization == [][C27_Step]_vars

\* a store.set on a recomputed g to the value it had: top, which is
\* mounted with a listener and reads g only, was not recomputed and no
\* listener was invoked
C27_Witness ==
  /\ world = "gate" /\ last.op = "set" /\ last.atom = "a" /\ "a" \in last.chg
  /\ SeqHas(last.reads, "g") /\ "g" \notin last.chg
  /\ atomStateMap["g"].hasValue
  /\ HasListener("top") /\ atomStateMap["top"].hasValue
  /\ ~SeqHas(last.reads, "top") /\ last.calls = <<>>

\* C28: the get of a write function observes the writes the write function
\* has made: wc's write function, which calls set(a, v) and returns get(c),
\* returns c's value computed from v, whether c is mounted or not.
C28_Step ==
  (last'.op = "set" /\ last'.atom = "wc" /\ ThrownBy(last') = 0) =>
     last'.out = Denote("c", last'.v, <<>>)

C28_WriterSeesOwnWrites == [][C28_Step]_vars

\* C29: a store.set on wf, whose write function sets a and then flag, made
\* while sum (which reads both) has a listener: when the write function
\* returns no listener has been invoked and no atom recomputed; the
\* recompute pass processes sum at most once and sum's read function runs
\* at most once; every listener of sum is invoked at most once, and exactly
\* once when sum's value changed.
C29_Step ==
  (last'.op = "set" /\ last'.atom = "wf" /\ HasListener("sum")) =>
    /\ writeAtomState(Work, "wf", last'.v).W.calls = <<>>
    /\ writeAtomState(Work, "wf", last'.v).W.pass = <<>>
    /\ ~SeqHas(writeAtomState(Work, "wf", last'.v).W.reads, "sum")
    /\ Count(last'.pass, "sum") <= 1
    /\ Count(last'.reads, "sum") <= 1
    /\ \A i \in 1..Len(mountedMap["sum"].listeners) :
         /\ Count(last'.calls, mountedMap["sum"].listeners[i]) <= 1
         /\ (/\ atomStateMap["sum"].hasValue /\ atomStateMap'["sum"].hasValue
             /\ atomStateMap'["sum"].value # atomStateMap["sum"].value) =>
              Count(last'.calls, mountedMap["sum"].listeners[i]) = 1

C29_BatchedFanOut == [][C29_Step]_vars

\* store.set(wf, v) changed both a and flag; sum, mounted with a listener,
\* was recomputed once to 2 * v and its listener invoked once
C29_Witness ==
  /\ world = "fan" /\ last.op = "set" /\ last.atom = "wf"
  /\ {"a", "flag", "sum"} \subseteq last.chg
  /\ HasListener("sum") /\ Count(last.reads, "sum") = 1
  /\ atomStateMap["sum"].hasValue /\ atomStateMap["sum"].value = 2 * last.v
  /\ last.calls = mountedMap["sum"].listeners

\* C30: a store.sub during whose flush m's onMount hook changes m through
\* its setter returns with nothing left pending, with every mounted atom
\* holding the value its read function yields for the m written, and with
\* every listener of every mounted atom invoked, the listener being
\* subscribed included.
C30_Step ==
  (/\ last'.op = "sub" /\ SeqHas(last'.hooks, "m")
   /\ atomStateMap'["m"].hasValue
   /\ atomStateMap'["m"].value # CurrentOrInit("m")) =>
    /\ changedAtoms' = <<>>
    /\ SeqHas(last'.calls, last'.l)
    /\ \A x \in WorldAtoms(world) :
         mountedMap'[x].m =>
           /\ atomStateMap'[x].hasValue
           /\ Val(atomStateMap'[x].value) =
                Denote(x, atomStateMap'["m"].value, <<>>)
           /\ \A i \in 1..Len(mountedMap'[x].listeners) :
                SeqHas(last'.calls, mountedMap'[x].listeners[i])

C30_HookWriteSameFlush == [][C30_Step]_vars

\* store.sub(dm, l1) on a new store mounted m, whose hook wrote 1: dm was
\* recomputed to 2 and l1 invoked before store.sub returned
C30_Witness ==
  /\ world = "hook" /\ last.op = "sub" /\ last.atom = "dm" /\ last.k = 1
  /\ SeqHas(last.hooks, "m")
  /\ atomStateMap["m"].value = 1 /\ atomStateMap["dm"].value = 2
  /\ Count(last.reads, "dm") = 2
  /\ last.calls = <<last.l>>

\* C31: a call of the setAtom handed to m's onMount hook, made after the
\* store.sub that mounted m has returned, leaves nothing pending, leaves
\* every mounted atom with the value its read function yields for the m
\* written, and invokes every listener of every atom it changed.
C31_Step ==
  last'.op = "setAtom" =>
    /\ changedAtoms' = <<>>
    /\ \A x \in WorldAtoms(world) :
         mountedMap'[x].m =>
           /\ Val(atomStateMap'[x].value) = Denote(x, last'.v, <<>>)
           /\ (atomStateMap[x].value # atomStateMap'[x].value) =>
                \A i \in 1..Len(mountedMap'[x].listeners) :
                  SeqHas(last'.calls, mountedMap'[x].listeners[i])

C31_SetAtomLikeStoreSet == [][C31_Step]_vars

\* The atoms whose read function reads the atom itself: z, and the atoms
\* built from a value, whose read function is defaultRead.
ReadsItself(x) == x = "z" \/ hasInitialValue(x)

\* C32: a store.get on an atom that reads itself and has neither a value
\* nor an error recorded throws 'no atom init' to the caller when the atom
\* has no init value, and otherwise returns the init value and records it
\* as the atom's value.
C32_Step ==
  (/\ last'.op = "get" /\ ReadsItself(last'.atom)
   /\ ~isAtomStateInitialized(atomStateMap[last'.atom])) =>
     IF hasInitialValue(last'.atom)
     THEN /\ last'.out = Val(InitOf(last'.atom))
          /\ atomStateMap'[last'.atom].hasValue
          /\ atomStateMap'[last'.atom].value = InitOf(last'.atom)
     ELSE /\ last'.out.t = "err" /\ last'.out.e.kind = "no atom init"
          /\ atomStateMap'[last'.atom].hasError
          /\ ~atomStateMap'[last'.atom].hasValue

C32_SelfReference == [][C32_Step]_vars

\* the first store.get(flag) returned the init value 1 and recorded it, and
\* the first store.get(z) threw 'no atom init'
C32_Witness ==
  /\ world = "self" /\ last.op = "get" /\ last.atom = "z" /\ last.k = 2
  /\ last.out.t = "err" /\ last.out.e.kind = "no atom init"
  /\ atomStateMap["z"].hasError /\ atomStateMap["z"].n = 1
  /\ atomStateMap["flag"].hasValue /\ atomStateMap["flag"].value = 1
  /\ atomStateMap["flag"].n = 1 /\ ~isAtomStateInitialized(atomStateMap["a"])

\* C33: after every store operation the mounted records mirror each other
\* and hold only mounted atoms: B is in the dependents of A's mounted record
\* exactly if B is mounted and A is in the dependencies of B's mounted
\* record; and a store.get on an unmounted atom changes no mounted record.
C33_Step ==
  /\ \A A \in WorldAtoms(world) : \A B \in WorldAtoms(world) :
       (mountedMap'[A].m /\ SeqHas(mountedMap'[A].dependents, B)) <=>
         (mountedMap'[B].m /\ A \in mountedMap'[B].dependencies)
  /\ (last'.op = "get" /\ ~mountedMap[last'.atom].m) =>
       mountedMap' = mountedMap

C33_MountedRecordsMirror == [][C33_Step]_vars

\* C34: after every store operation the dependencies of a mounted atom's
\* mounted record are the atoms its last evaluation read, and an atom
\* without listener is mounted only if a mounted atom's last evaluation
\* read it.
C34_MountedDependenciesCurrent ==
  \A x \in WorldAtoms(world) :
    Mounted(x) =>
      /\ mountedMap[x].dependencies = MapKeys(atomStateMap[x].dependencies)
      /\ \/ Len(mountedMap[x].listeners) > 0
         \/ \E y \in WorldAtoms(world) \ {x} :
              Mounted(y) /\ x \in MapKeys(atomStateMap[y].dependencies)

\* Two outcomes of store.get that a caller cannot tell apart: the same
\* value, or an error of the same kind.
SameOutcome(o1, o2) ==
  /\ o1.t = o2.t
  /\ o1.t = "val" => o1.v = o2.v
  /\ o1.t = "err" => o1.e.kind = o2.e.kind

\* C35: when two stores receive the same store.set and store.get calls, the
\* atoms being subscribed in the first store and not in the second, every
\* store.get returns the same value or the same error in both stores.
C35_Step ==
  last'.op = "get" =>
    SameOutcome(last'.out, StoreGet(OtherWork, last'.atom).out)

C35_LazyAndSchedulerAgree == [][C35_Step]_vars

\* C36: every store.get, store.set, store.sub and unsubscribe call runs to
\* completion, and when it has returned the pending-change set, the
\* mount-callback queue and the unmount-callback queue are empty.
C36_Quiescent ==
  last.op \in {"get", "set", "sub", "unsub"} =>
    /\ changedAtoms = <<>>
    /\ mountCallbacks = <<>>
    /\ unmountCallbacks = <<>>

\* C37: no store operation ends with the 'invalidated atom exists' error of
\* the recompute pass (nor, when no callback throws on its own, with the
\* AggregateError that wraps it when a listener's store.set raised it), and
\* whenever an operation has returned every invalidation entry equals the
\* current version of its atom.
C37_NoInvalidatedAtomError ==
  /\ last.out.t = "err" =>
       /\ last.out.e.kind # "invalidated atom exists"
       /\ ThrownBy(last) = 0 => last.out.e.kind # "AggregateError"
  /\ \A x \in WorldAtoms(world) :
       invalidatedAtoms[x] # NoEntry =>
         invalidatedAtoms[x] = atomStateMap[x].n

\* store.set(wb, v) on a mounted b1: the write function's get(b1)
\* recomputed the invalidated b1 before the recompute pass reached it, and
\* the pass ran without error
C37_Witness ==
  /\ world = "wget" /\ last.op = "set" /\ last.atom = "wb"
  /\ HasListener("b1") /\ {"a", "b1"} \subseteq last.pend
  /\ last.reads = <<"b1">> /\ last.pass = <<"b1">>
  /\ last.out = Val(2 * last.v) /\ last.calls = <<"l1">>

\* C38: a store.set on wt, whose write function sets a and then throws,
\* throws the write function's error to the caller after the recompute pass
\* and the flush have run: a holds the value written, a mounted b1 holds
\* twice that value when the write changed a, every listener of every atom the call changed has been
\* invoked, and nothing is left pending.
C38_Step ==
  (last'.op = "set" /\ last'.atom = "wt") =>
    /\ last'.out.t = "err" /\ last'.out.e.kind = "write threw"
    /\ atomStateMap'["a"].hasValue /\ atomStateMap'["a"].value = last'.v
    /\ ("a" \in last'.chg /\ mountedMap'["b1"].m) =>
         /\ atomStateMap'["b1"].hasValue
         /\ atomStateMap'["b1"].value = 2 * last'.v
    /\ \A x \in last'.chg :
         \A i \in 1..Len(mountedMap'[x].listeners) :
           SeqHas(last'.calls, mountedMap'[x].listeners[i])
    /\ changedAtoms' = <<>>
    /\ \A x \in WorldAtoms(world) : invalidatedAtoms'[x] = NoEntry

C38_ThrowingWriteStillFlushes == [][C38_Step]_vars

\* store.set(wt, 1) threw the write function's error; a is 1, the mounted
\* b1 was recomputed to 2 and its listener invoked
C38_Witness ==
  /\ world = "wthrow" /\ last.op = "set" /\ last.atom = "wt" /\ last.v = 1
  /\ last.out.t = "err" /\ last.out.e.kind = "write threw"
  /\ atomStateMap["a"].value = 1 /\ "a" \in last.chg
  /\ HasListener("b1") /\ atomStateMap["b1"].value = 2
  /\ last.reads = <<"b1">> /\ last.calls = mountedMap["b1"].listeners

\* C39: after every store operation, the atom of every subscription whose
\* unsubscribe closure has not been called is mounted and has the
\* subscription's listener among its listeners, also when another
\* subscription made with the same listener has been unsubscribed.
C39_LiveSubscriptionKeepsMount ==
  \A i \in 1..Len(subs) :
    ~subs[i].called =>
      /\ Mounted(subs[i].atom)
      /\ SeqHas(mountedMap[subs[i].atom].listeners, subs[i].l)

\* C40: when a store.set, store.sub or unsubscribe call has returned, no
\* atom has an invalidation entry equal to its current version, and a
\* store.get on a mounted atom returns the cached state: it runs no read
\* function and changes nothing in the store.
C40_InvalidationCleared ==
  last.op \in {"set", "sub", "unsub"} =>
    \A x \in WorldAtoms(world) :
      /\ invalidatedAtoms[x] # atomStateMap[x].n
      /\ Mounted(x) =>
           /\ isAtomStateInitialized(atomStateMap[x])
           /\ StoreGet(Work, x).W = Work

====
